---- MODULE Spec2Model ----
(***************************************************************************)
(* Model of teensy/Pendant/Pendant.ino: the pendant firmware's indicator   *)
(* manager (set_indicator over the Timer service), the RFID frame decoder  *)
(* (rfid_poll) and the host link handler (rawhid_poll).                    *)
(*                                                                         *)
(* The handlers are written in state-passing style: an operator takes the  *)
(* "world" record w (the indicator registry, Timer t, the output pin       *)
(* levels and two effect counters) and returns the world after the call,   *)
(* so that a handler that calls set_indicator several times in a row is    *)
(* the composition of those calls, as in the code.                         *)
(*                                                                         *)
(* loop() calls t.update, alert_t.update, rfid_poll, button_poll and       *)
(* rawhid_poll in that order for ever.  A Timer update at which no time    *)
(* has passed since the previous one changes nothing, and time may pass    *)
(* between any two calls, so the model lets the handlers and the passing   *)
(* of time interleave freely: every interleaving is a run of loop() with   *)
(* some timing.                                                            *)
(***************************************************************************)
EXTENDS Integers, Sequences, FiniteSets, TLC

VARIABLES
    g_indicators,     \* struct s_indicator g_indicators[INDICATOR_COUNT]
    t,                \* Timer t: its event slots
    alert_t,          \* Timer alert_t: its event slots
    pin,              \* level of each digital output pin
    rfid_state,       \* static byte rfid_state
    rfid_byte_count,  \* static byte rfid_byte_count
    rfid_buffer,      \* static byte rfid_buffer[10]
    rfid_cksum,       \* static byte rfid_cksum[2]
    packetCount,      \* static unsigned int packetCount, as its two 16-bit halves
    run_state,        \* static unsigned int run_state
    last_run_state,   \* static unsigned int last_run_state
    buffer,           \* byte buffer[64]
    encoder_maxvel,   \* position held by Encoder encoder_maxvel
    last_op,          \* observation: the handler that ran last and its effects
    rx_log,           \* observation: reader bytes consumed since the decoder was last in WAIT_STX
    host_tx,          \* observation: bytes printed on Serial while rx_log was consumed
    rx0,              \* observation: byte 0 of the inbound packet processed last (-1: none yet)
    n_sent,           \* observation: number of sends RawHID.send reported written, modulo 2^16
    since_alert,      \* observation: ms since the last transition into RUNNING (-1: none yet)
    buttons,          \* Bounce button_start, button_stop, button_feed, button_m1
    keyboard,         \* Keyboard: the modifier and the key of the report being built
    kbd_tx,           \* observation: the reports the last button_poll sent, in order
    btn_obs,          \* observation: per button, its raw samples and accepted edges in time
    stream            \* observation: the frame the reader is sending on Serial2

vars == <<g_indicators, t, alert_t, pin, rfid_state, rfid_byte_count, rfid_buffer,
          rfid_cksum, packetCount, run_state, last_run_state, buffer, encoder_maxvel,
          last_op, rx_log, host_tx, rx0, n_sent, since_alert,
          buttons, keyboard, kbd_tx, btn_obs, stream>>

indVars == <<g_indicators, t, pin>>
rfidVars == <<rfid_state, rfid_byte_count, rfid_buffer, rfid_cksum>>
hidVars == <<packetCount, run_state, last_run_state, buffer, encoder_maxvel>>
rfidObs == <<rx_log, host_tx>>
hidObs == <<rx0, n_sent>>
btnVars == <<buttons, keyboard, kbd_tx, btn_obs>>

---------------------------------------------------------------------------
(* Program constants *)

LOW == 0
HIGH == 1

PIN_BEACON_BLUE == 0
PIN_BEACON_GREEN == 1
PIN_BEACON_AMBER == 2
PIN_BEACON_RED == 3
PIN_LED_START == 5
PIN_LED_FEED == 16
PIN_LED_M1 == 17
PIN_LED_RFID == 21

ALERT_BEEPER == 0
INDICATOR_BEACON_GREEN == 1
INDICATOR_BEACON_AMBER == 2
INDICATOR_BEACON_RED == 3
INDICATOR_LED_START == 4
INDICATOR_LED_FEED == 5
INDICATOR_LED_M1 == 6
INDICATOR_LED_RFID == 7
INDICATOR_COUNT == 8

INDICATOR_OFF == 0
INDICATOR_ON == 1
INDICATOR_BLINK == 2
INDICATOR_PULSE == 3

Indicators == 0 .. (INDICATOR_COUNT - 1)
Modes == {INDICATOR_OFF, INDICATOR_ON, INDICATOR_BLINK, INDICATOR_PULSE}

\* setup(): the pin and the active level each indicator is initialised with.
SetupPin(idx) ==
    CASE idx = ALERT_BEEPER -> PIN_BEACON_BLUE
      [] idx = INDICATOR_BEACON_GREEN -> PIN_BEACON_GREEN
      [] idx = INDICATOR_BEACON_AMBER -> PIN_BEACON_AMBER
      [] idx = INDICATOR_BEACON_RED -> PIN_BEACON_RED
      [] idx = INDICATOR_LED_START -> PIN_LED_START
      [] idx = INDICATOR_LED_FEED -> PIN_LED_FEED
      [] idx = INDICATOR_LED_M1 -> PIN_LED_M1
      [] OTHER -> PIN_LED_RFID

SetupActiveLevel(idx) == LOW

OutputPins == {SetupPin(idx) : idx \in Indicators}

---------------------------------------------------------------------------
(* Bounds of the model *)

\* Time passes in steps of Quantum milliseconds.
Quantum == 2500

\* The test harness of set_indicator drives the indicators 0 .. HarnessInds-1.
HarnessInds == 2

\* alert_t holds at most MaxAlerts outstanding alert_off callbacks.
MaxAlerts == 2

\* The host stops reading packets when the count of sends reaches MaxSends.
MaxSends == 2

\* The knob is turned at most EncOver positions past either end of 0 .. 15.
EncOver == 1

---------------------------------------------------------------------------
(* Arduino primitives *)

\* ~x on an int (bool operands are promoted to int first).
BitNot(x) == (0 - x) - 1

\* digitalWrite(pin, val): val is a uint8_t, any nonzero value drives the pin HIGH.
DigitalWrite(w, p, val) ==
    [w EXCEPT !.pin[p] = IF val % 256 # 0 THEN HIGH ELSE LOW,
              !.writes = @ + 1]

highByte(x) == (x \div 256) % 256
lowByte(x) == x % 256

Min(a, b) == IF a < b THEN a ELSE b

---------------------------------------------------------------------------
(* Timer service (the Timer library the sketch includes): a fixed pool of  *)
(* event slots; the handle of a registration is its slot index.            *)

EVENT_NONE == 0
EVENT_EVERY == 1
EVENT_OSCILLATE == 2
NO_TIMER_AVAILABLE == -1

\* A slot that holds no registration.  stop() and a finished event only mark
\* the slot EVENT_NONE; the other fields are rewritten by the next
\* registration before they are read, so a free slot is kept in one form.
FreeEvent ==
    [eventType |-> EVENT_NONE, pin |-> 0, period |-> 0, pinState |-> LOW,
     repeatCount |-> 0, count |-> 0, elapsed |-> 0]

\* Timer t never holds more live events than there are indicators (each live
\* event is the one its indicator's event_id names), so a pool of
\* INDICATOR_COUNT slots is never exhausted.
TSlots == 0 .. (INDICATOR_COUNT - 1)
AlertSlots == 0 .. (MaxAlerts - 1)

Live(tm) == {s \in DOMAIN tm : tm[s].eventType # EVENT_NONE}

\* findFreeEventIndex: the lowest free slot, or NO_TIMER_AVAILABLE.
FindFreeEventIndex(tm) ==
    IF \E s \in DOMAIN tm : tm[s].eventType = EVENT_NONE
    THEN CHOOSE s \in DOMAIN tm :
            /\ tm[s].eventType = EVENT_NONE
            /\ \A s2 \in DOMAIN tm : tm[s2].eventType = EVENT_NONE => s <= s2
    ELSE NO_TIMER_AVAILABLE

\* t.oscillate(pin, period, startingValue, repeatCount): drives the pin to
\* startingValue and registers a toggle every period ms.  Returns the world
\* and the handle.
TimerOscillate(w, p, period, startingValue, repeatCount) ==
    LET i == FindFreeEventIndex(w.t) IN
    IF i = NO_TIMER_AVAILABLE THEN [w |-> w, id |-> NO_TIMER_AVAILABLE]
    ELSE LET w1 == DigitalWrite(w, p, startingValue) IN
         [w |-> [w1 EXCEPT !.t[i] = [eventType |-> EVENT_OSCILLATE, pin |-> p,
                                      period |-> period,
                                      pinState |-> IF startingValue % 256 # 0 THEN HIGH ELSE LOW,
                                      repeatCount |-> repeatCount, count |-> 0,
                                      elapsed |-> 0],
                            !.regs = @ + 1],
          id |-> i]

\* t.oscillate(pin, period, startingValue): toggles for ever (repeatCount -1,
\* stored doubled).
TimerOscillateForever(w, p, period, startingValue) ==
    TimerOscillate(w, p, period, startingValue, -2)

\* t.pulseImmediate(pin, period, pulseValue): the pin is driven to pulseValue
\* now and toggled once after period ms, which ends the event.
TimerPulseImmediate(w, p, period, pulseValue) ==
    TimerOscillate(w, p, period, pulseValue, 1)

\* t.stop(id): frees the slot if id is a slot index.
TimerStop(tm, id) ==
    IF id \in DOMAIN tm THEN [tm EXCEPT ![id] = FreeEvent] ELSE tm

\* alert_t.after(period, callback): a one-shot callback.  Returns the timer
\* and the handle.
TimerAfter(tm, period) ==
    LET i == FindFreeEventIndex(tm) IN
    IF i = NO_TIMER_AVAILABLE THEN [t |-> tm, id |-> NO_TIMER_AVAILABLE]
    ELSE [t |-> [tm EXCEPT ![i] = [eventType |-> EVENT_EVERY, pin |-> 0,
                                   period |-> period, pinState |-> LOW,
                                   repeatCount |-> 1, count |-> 0, elapsed |-> 0]],
          id |-> i]

\* An event is due when period ms have passed since it last fired.
Due(e) == e.eventType # EVENT_NONE /\ e.elapsed >= e.period

\* Event::update for an oscillate event of t: toggle the pin when due, then
\* end the event once it has fired repeatCount times.
OscillateUpdate(w, s) ==
    LET e == w.t[s] IN
    IF e.eventType = EVENT_OSCILLATE /\ Due(e)
    THEN LET ns == IF e.pinState = LOW THEN HIGH ELSE LOW
             c == IF e.repeatCount > -1 THEN e.count + 1 ELSE e.count
             w1 == DigitalWrite(w, e.pin, ns)
         IN  IF e.repeatCount > -1 /\ c >= e.repeatCount
             THEN [w1 EXCEPT !.t[s] = FreeEvent]
             ELSE [w1 EXCEPT !.t[s].pinState = ns, !.t[s].count = c,
                             !.t[s].elapsed = 0]
    ELSE w

\* Timer::update: every slot in index order.
RECURSIVE TimerUpdateFrom(_, _)
TimerUpdateFrom(w, s) ==
    IF s \notin DOMAIN w.t THEN w
    ELSE TimerUpdateFrom(OscillateUpdate(w, s), s + 1)

TimerUpdate(w) == TimerUpdateFrom(w, 0)

\* millis() moves on by d: every live event has waited d ms more.  Only the
\* comparison with the period is ever made, so the wait is kept up to it.
Advance(tm, d) ==
    [s \in DOMAIN tm |->
        IF tm[s].eventType = EVENT_NONE THEN tm[s]
        ELSE [tm[s] EXCEPT !.elapsed = Min(tm[s].period, @ + d)]]

---------------------------------------------------------------------------
(* Indicator manager *)

World == [ind |-> g_indicators, t |-> t, pin |-> pin, regs |-> 0, writes |-> 0]

\* init_indicator(idx, io_pin, active_level)
init_indicator(w, idx, io_pin, active_level) ==
    DigitalWrite([w EXCEPT !.ind[idx] = [event_id |-> -1, io_pin |-> io_pin,
                                         active_level |-> active_level,
                                         state |-> INDICATOR_OFF]],
                 io_pin, BitNot(active_level))

\* Mutant of StopHandle: the handle is forgotten but the registration is not
\* stopped.
StopHandle_NoStop(w, idx) ==
    IF w.ind[idx].event_id # -1
    THEN [w EXCEPT !.ind[idx].event_id = -1]
    ELSE w

\* if (i.event_id != -1) { t.stop(i.event_id); i.event_id = -1; }
StopHandle(w, idx) ==
    IF w.ind[idx].event_id # -1
    THEN [w EXCEPT !.t = TimerStop(w.t, w.ind[idx].event_id),
                   !.ind[idx].event_id = -1]
    ELSE w

\* case INDICATOR_OFF
IndicatorOff(w, idx) ==
    IF w.ind[idx].state # INDICATOR_OFF
    THEN LET w1 == StopHandle(w, idx)
             w2 == DigitalWrite(w1, w1.ind[idx].io_pin, BitNot(w1.ind[idx].active_level))
         IN  [w2 EXCEPT !.ind[idx].state = INDICATOR_OFF]
    ELSE w

\* case INDICATOR_ON
IndicatorOn(w, idx) ==
    IF w.ind[idx].state # INDICATOR_ON
    THEN LET w1 == StopHandle(w, idx)
             w2 == DigitalWrite(w1, w1.ind[idx].io_pin, w1.ind[idx].active_level)
         IN  [w2 EXCEPT !.ind[idx].state = INDICATOR_ON]
    ELSE w

\* Mutant of IndicatorBlink: the test for an outstanding handle is dropped.
IndicatorBlink_NoHandleCheck(w, idx, period) ==
    IF w.ind[idx].state # INDICATOR_BLINK
    THEN LET r == TimerOscillateForever(w, w.ind[idx].io_pin, period,
                                        w.ind[idx].active_level)
         IN  [r.w EXCEPT !.ind[idx].event_id = r.id,
                         !.ind[idx].state = INDICATOR_BLINK]
    ELSE w

\* case INDICATOR_BLINK
IndicatorBlink(w, idx, period) ==
    IF w.ind[idx].state # INDICATOR_BLINK /\ w.ind[idx].event_id = -1
    THEN LET r == TimerOscillateForever(w, w.ind[idx].io_pin, period,
                                        w.ind[idx].active_level)
         IN  [r.w EXCEPT !.ind[idx].event_id = r.id,
                         !.ind[idx].state = INDICATOR_BLINK]
    ELSE w

\* Mutant of IndicatorPulse: every request registers a pulse.
IndicatorPulse_NoGuard(w, idx, period) ==
    LET r == TimerPulseImmediate(w, w.ind[idx].io_pin, period,
                                 w.ind[idx].active_level)
    IN  [r.w EXCEPT !.ind[idx].event_id = r.id,
                    !.ind[idx].state = INDICATOR_PULSE]

\* case INDICATOR_PULSE
IndicatorPulse(w, idx, period) ==
    IF w.ind[idx].event_id = -1
    THEN LET r == TimerPulseImmediate(w, w.ind[idx].io_pin, period,
                                      w.ind[idx].active_level)
         IN  [r.w EXCEPT !.ind[idx].event_id = r.id,
                         !.ind[idx].state = INDICATOR_PULSE]
    ELSE w

\* set_indicator(idx, state, period)
set_indicator(w, idx, state, period) ==
    CASE state = INDICATOR_OFF -> IndicatorOff(w, idx)
      [] state = INDICATOR_ON -> IndicatorOn(w, idx)
      [] state = INDICATOR_BLINK -> IndicatorBlink(w, idx, period)
      [] state = INDICATOR_PULSE -> IndicatorPulse(w, idx, period)
      [] OTHER -> w

\* alert_off(): the callback alert_t runs.
alert_off(w) == set_indicator(w, ALERT_BEEPER, INDICATOR_OFF, 0)

---------------------------------------------------------------------------
(* Buttons: the Bounce objects and button_poll.  The sketch gives every     *)
(* button a 10 ms interval and updates every button once per loop()         *)
(* iteration; the debouncing itself is the Bounce library's.                *)

PIN_BTN_START == 4
PIN_BTN_STOP == 6
PIN_BTN_FEED == 7
PIN_BTN_M1 == 8

DEBOUNCE_MS == 10

Buttons == {PIN_BTN_START, PIN_BTN_STOP, PIN_BTN_FEED, PIN_BTN_M1}
Levels == {LOW, HIGH}

\* The level of a button's pin while nobody presses it: the pins are pulled
\* up, and the start button is a normally-closed switch that holds its pin
\* low until it is pressed.
RestLevel(b) == IF b = PIN_BTN_START THEN LOW ELSE HIGH

\* Mutant of BounceInterval: the buttons are given no debounce interval.
BounceInterval_None(b) == 0

\* Bounce(pin, 10): the debounce interval of button b
BounceInterval(b) == DEBOUNCE_MS

\* Bounce::Bounce: the debounced level is the level read at construction.
\* state is the debounced level, raw the level sampled last, held the ms for
\* which raw has been sampled unchanged (kept up to the interval) and
\* stateChanged whether the last update accepted a transition.
Bounce(b) ==
    [state |-> RestLevel(b), raw |-> RestLevel(b), held |-> 0, stateChanged |-> FALSE]

\* Bounce::update with the level sampled from the pin: a transition of the
\* debounced level is accepted once the sampled level has been stable for
\* the interval.
BounceUpdate(o, sample, interval) ==
    IF sample # o.raw
    THEN [o EXCEPT !.raw = sample, !.held = 0, !.stateChanged = FALSE]
    ELSE IF o.held >= interval /\ sample # o.state
    THEN [o EXCEPT !.state = sample, !.stateChanged = TRUE]
    ELSE [o EXCEPT !.stateChanged = FALSE]

\* Bounce::risingEdge, Bounce::fallingEdge
risingEdge(o) == o.stateChanged /\ o.state = HIGH
fallingEdge(o) == o.stateChanged /\ o.state = LOW

\* millis() moves on by d for the Bounce objects.
BounceAdvance(bs, d) ==
    [b \in DOMAIN bs |-> [bs[b] EXCEPT !.held = Min(BounceInterval(b), @ + d)]]

\* Keyboard: key codes and the report the sketch builds and sends.
MODIFIERKEY_ALT == "ALT"
KEY_R == "R"
KEY_ESC == "ESC"
KEY_SPACE == "SPACE"
KEY_K == "K"
KEY_NONE == "0"

\* kb is the Keyboard's modifier and key1 with the reports sent so far.
KeyboardSetModifier(kb, m) == [kb EXCEPT !.modifier = m]
KeyboardSetKey1(kb, k) == [kb EXCEPT !.key1 = k]
KeyboardSendNow(kb) == [kb EXCEPT !.sent = Append(@, <<kb.modifier, kb.key1>>)]

\* The four sends of the start and M1 buttons: ALT down, key down, key up,
\* ALT up.
SendAltKey(kb, key) ==
    LET k1 == KeyboardSendNow(KeyboardSetModifier(kb, MODIFIERKEY_ALT))
        k2 == KeyboardSendNow(KeyboardSetKey1(k1, key))
        k3 == KeyboardSendNow(KeyboardSetKey1(k2, KEY_NONE))
    IN  KeyboardSendNow(KeyboardSetModifier(k3, KEY_NONE))

\* The two sends of the stop and feed buttons: key down, key up.
SendKey(kb, key) ==
    LET k1 == KeyboardSendNow(KeyboardSetKey1(KeyboardSetModifier(kb, KEY_NONE), key))
    IN  KeyboardSendNow(KeyboardSetKey1(KeyboardSetModifier(k1, KEY_NONE), KEY_NONE))

\* if (button_start.risingEdge()) ...
ButtonStart(kb, o) == IF risingEdge(o) THEN SendAltKey(kb, KEY_R) ELSE kb

\* Mutant of ButtonStop: the stop key is sent on the rising edge.
ButtonStop_Rising(kb, o) == IF risingEdge(o) THEN SendKey(kb, KEY_ESC) ELSE kb

\* if (button_stop.fallingEdge()) ...
ButtonStop(kb, o) == IF fallingEdge(o) THEN SendKey(kb, KEY_ESC) ELSE kb

\* if (button_feed.fallingEdge()) ...
ButtonFeed(kb, o) == IF fallingEdge(o) THEN SendKey(kb, KEY_SPACE) ELSE kb

\* if (button_m1.fallingEdge()) ...
ButtonM1(kb, o) == IF fallingEdge(o) THEN SendAltKey(kb, KEY_K) ELSE kb

\* The observation btn_obs of one button: lvl is the level sampled last,
\* stable_ms the ms for which every sample has shown lvl, edge_ms the ms
\* since the last accepted edge, and gap the ms between the last accepted
\* edge and the one before it; all three kept up to the debounce window.
Unobserved(b) ==
    [lvl |-> RestLevel(b), stable_ms |-> 0, edge_ms |-> DEBOUNCE_MS, gap |-> DEBOUNCE_MS]

Observe(ob, sample, accepted) ==
    LET o1 == IF sample # ob.lvl THEN [ob EXCEPT !.lvl = sample, !.stable_ms = 0] ELSE ob
    IN  IF accepted THEN [o1 EXCEPT !.gap = ob.edge_ms, !.edge_ms = 0] ELSE o1

ObserveAdvance(obs, d) ==
    [b \in DOMAIN obs |->
        [obs[b] EXCEPT !.stable_ms = Min(DEBOUNCE_MS, @ + d),
                       !.edge_ms = Min(DEBOUNCE_MS, @ + d)]]

---------------------------------------------------------------------------
(* Initial state: the state setup() leaves *)

ALERT_MS == 5000
\* The initialiser -1 of the unsigned run_state and last_run_state (the bit
\* pattern 0xFFFFFFFF).  The code only assigns 0, 1, 2 to them and compares
\* them with 1, so the value is kept as written.
RUN_STATE_NONE == -1

\* The globals before setup() runs (zero-initialised statics).
World0 ==
    [ind |-> [idx \in Indicators |->
                 [event_id |-> 0, io_pin |-> 0, active_level |-> LOW, state |-> 0]],
     t |-> [s \in TSlots |-> FreeEvent],
     pin |-> [p \in OutputPins |-> LOW],
     regs |-> 0, writes |-> 0]

\* setup(): init_indicator for every indicator, in index order.
RECURSIVE SetupFrom(_, _)
SetupFrom(w, idx) ==
    IF idx \notin Indicators THEN w
    ELSE SetupFrom(init_indicator(w, idx, SetupPin(idx), SetupActiveLevel(idx)), idx + 1)

\* The observation last_op: the handler that ran last (name); for
\* set_indicator its arguments (idx, mode), the mode it found (from) and
\* whether it repeats the call before it (rep); for rawhid_poll the result of
\* RawHID.recv (n), the packet received (rx), the number of calls of
\* RawHID.send (sends) and the result of the last one (sent), the encoder
\* position it read (raw) and byte 0 of the packet processed before (from);
\* for init_indicator the active level it was given (level); and the timer
\* registrations (regs) and pin writes (writes) the handler made.
NoPacket == [n \in 0 .. 63 |-> -1]

NoOp == [name |-> "setup", idx |-> -1, mode |-> -1, from |-> -1, rep |-> FALSE,
         regs |-> 0, writes |-> 0, n |-> -1, sent |-> -1, raw |-> 0,
         rx |-> NoPacket, sends |-> 0, level |-> -1]

Op(name, w) == [NoOp EXCEPT !.name = name, !.regs = w.regs, !.writes = w.writes]

Init ==
    /\ g_indicators = SetupFrom(World0, 0).ind
    /\ t = SetupFrom(World0, 0).t
    /\ pin = SetupFrom(World0, 0).pin
    /\ alert_t = [s \in AlertSlots |-> FreeEvent]
    /\ rfid_state = 0
    /\ rfid_byte_count = 0
    /\ rfid_buffer = [n \in 0 .. 9 |-> 0]
    /\ rfid_cksum = [n \in 0 .. 1 |-> 0]
    /\ packetCount = [hi |-> 0, lo |-> 0]
    /\ run_state = RUN_STATE_NONE
    /\ last_run_state = RUN_STATE_NONE
    /\ buffer = [n \in 0 .. 63 |-> 0]
    /\ encoder_maxvel = 1
    /\ last_op = NoOp
    /\ rx_log = <<>>
    /\ host_tx = <<>>
    /\ rx0 = -1
    /\ n_sent = 0
    /\ since_alert = -1
    /\ buttons = [b \in Buttons |-> Bounce(b)]
    /\ keyboard = [modifier |-> KEY_NONE, key1 |-> KEY_NONE]
    /\ kbd_tx = <<>>
    /\ btn_obs = [b \in Buttons |-> Unobserved(b)]
    /\ stream = [pos |-> 0, noise |-> 0, fill |-> 0]

---------------------------------------------------------------------------
(* Timer ticks and the passing of time *)

\* t.update() in loop()
TUpdate ==
    LET w == TimerUpdate(World) IN
    /\ g_indicators' = w.ind
    /\ t' = w.t
    /\ pin' = w.pin
    /\ last_op' = Op("t.update", w)
    /\ UNCHANGED <<alert_t, rfidVars, hidVars, rfidObs, hidObs, since_alert, btnVars, stream>>

\* alert_t.update(): every due callback runs alert_off and its slot is freed.
RECURSIVE AlertUpdateFrom(_, _, _)
AlertUpdateFrom(w, tm, s) ==
    IF s \notin DOMAIN tm THEN [w |-> w, t |-> tm]
    ELSE IF tm[s].eventType = EVENT_EVERY /\ Due(tm[s])
         THEN AlertUpdateFrom(alert_off(w), [tm EXCEPT ![s] = FreeEvent], s + 1)
         ELSE AlertUpdateFrom(w, tm, s + 1)

AlertUpdate ==
    LET r == AlertUpdateFrom(World, alert_t, 0) IN
    /\ g_indicators' = r.w.ind
    /\ t' = r.w.t
    /\ pin' = r.w.pin
    /\ alert_t' = r.t
    /\ last_op' = Op("alert_t.update", r.w)
    /\ UNCHANGED <<rfidVars, hidVars, rfidObs, hidObs, since_alert, btnVars, stream>>

\* millis() moves on by d.
Elapse(d) ==
    /\ t' = Advance(t, d)
    /\ alert_t' = Advance(alert_t, d)
    /\ buttons' = BounceAdvance(buttons, d)
    /\ since_alert' = IF since_alert = -1 THEN -1 ELSE Min(ALERT_MS, since_alert + d)
    /\ btn_obs' = ObserveAdvance(btn_obs, d)
    /\ last_op' = [NoOp EXCEPT !.name = "tick"]
    /\ UNCHANGED <<g_indicators, pin, rfidVars, hidVars, rfidObs, hidObs,
                   keyboard, kbd_tx, stream>>

\* millis() moves on by Quantum.
Tick == Elapse(Quantum)

---------------------------------------------------------------------------
(* The indicator manager on its own: any caller of set_indicator *)

HARNESS_PERIOD == 500

CallSetIndicator(idx, mode, period) ==
    LET w == set_indicator(World, idx, mode, period) IN
    /\ g_indicators' = w.ind
    /\ t' = w.t
    /\ pin' = w.pin
    /\ last_op' = [NoOp EXCEPT !.name = "set_indicator", !.idx = idx, !.mode = mode,
                               !.from = g_indicators[idx].state,
                               !.rep = /\ last_op.name = "set_indicator"
                                       /\ last_op.idx = idx
                                       /\ last_op.mode = mode,
                               !.regs = w.regs, !.writes = w.writes]
    /\ UNCHANGED <<alert_t, rfidVars, hidVars, rfidObs, hidObs, since_alert, btnVars, stream>>

NextInd ==
    \/ \E idx \in 0 .. (HarnessInds - 1), mode \in Modes :
          CallSetIndicator(idx, mode, HARNESS_PERIOD)
    \/ TUpdate
    \/ Tick

SpecInd == Init /\ [][NextInd]_vars

---------------------------------------------------------------------------
(* Claims about the indicator manager *)

\* The live registrations of Timer t that drive indicator i's pin.
RegsOf(tm, i) ==
    {s \in DOMAIN tm : tm[s].eventType # EVENT_NONE /\ tm[s].pin = g_indicators[i].io_pin}

\* C1: set_indicator is idempotent: a call that repeats the previous call's
\* (indicator, mode), with no timer tick in between, adds no timer
\* registration and no pin write to those of the first call beyond one of
\* each in total, and leaves the indicator's mode and handle, the timer and
\* the pins unchanged.
C1_Idempotent ==
    [][(/\ last_op.name = "set_indicator"
        /\ last_op'.name = "set_indicator"
        /\ last_op'.idx = last_op.idx
        /\ last_op'.mode = last_op.mode)
       => /\ last_op.regs + last_op'.regs <= 1
          /\ last_op.writes + last_op'.writes <= 1
          /\ g_indicators' = g_indicators
          /\ t' = t
          /\ pin' = pin]_vars

\* C1 witness: a PULSE request repeated right after the PULSE request that
\* registered the pulse.
C1_Witness ==
    /\ last_op.name = "set_indicator"
    /\ last_op.rep
    /\ last_op.mode = INDICATOR_PULSE
    /\ last_op.regs = 0
    /\ g_indicators[last_op.idx].state = INDICATOR_PULSE
    /\ RegsOf(t, last_op.idx) # {}

\* C2: setting an indicator that is in BLINK mode to OFF or ON clears its
\* handle and leaves no registration of Timer t on its pin; and while an
\* indicator is in mode OFF or ON no t.update changes its pin.
C2_NoOrphanToggle ==
    [][\A i \in Indicators :
         /\ (/\ g_indicators[i].state = INDICATOR_BLINK
             /\ last_op'.name = "set_indicator"
             /\ last_op'.idx = i
             /\ last_op'.mode \in {INDICATOR_OFF, INDICATOR_ON})
            => (/\ g_indicators'[i].event_id = -1
                /\ g_indicators'[i].state = last_op'.mode
                /\ \A s \in TSlots :
                      t'[s].eventType # EVENT_NONE => t'[s].pin # g_indicators[i].io_pin)
         /\ (/\ g_indicators[i].state \in {INDICATOR_OFF, INDICATOR_ON}
             /\ last_op'.name = "t.update")
            => pin'[g_indicators[i].io_pin] = pin[g_indicators[i].io_pin]]_vars

\* C2 witness: an indicator whose blink has toggled its pin was just set to OFF.
C2_Witness ==
    /\ last_op.name = "set_indicator"
    /\ last_op.from = INDICATOR_BLINK
    /\ last_op.mode = INDICATOR_OFF
    /\ g_indicators[last_op.idx].state = INDICATOR_OFF
    /\ g_indicators[last_op.idx].event_id = -1

\* C3: each indicator has at most one outstanding registration, mode OFF or
\* ON implies no handle, mode BLINK or PULSE implies a recorded handle, and
\* setup() leaves every indicator OFF with no handle.
C3_HandleConsistent ==
    /\ \A i \in Indicators :
          /\ Cardinality(RegsOf(t, i)) <= 1
          /\ g_indicators[i].state \in {INDICATOR_OFF, INDICATOR_ON}
                => g_indicators[i].event_id = -1
          /\ g_indicators[i].state \in {INDICATOR_BLINK, INDICATOR_PULSE}
                => g_indicators[i].event_id # -1
          /\ g_indicators[i].event_id = -1 => RegsOf(t, i) = {}
    /\ last_op.name = "setup"
          => \A i \in Indicators :
                g_indicators[i].state = INDICATOR_OFF /\ g_indicators[i].event_id = -1

\* C3 witness: one indicator blinks on its own registration while another,
\* whose pulse has fired, still records its handle.
C3_Witness ==
    \E i, j \in Indicators :
        /\ g_indicators[i].state = INDICATOR_BLINK
        /\ g_indicators[i].event_id # -1
        /\ Cardinality(RegsOf(t, i)) = 1
        /\ g_indicators[j].state = INDICATOR_PULSE
        /\ RegsOf(t, j) = {}

---------------------------------------------------------------------------
(* RFID frame decoder: rfid_poll *)

RFID_STATE_WAIT_STX == 0
RFID_STATE_GET_BYTES == 1
RFID_STATE_GET_CKSUM == 2
RFID_STATE_WAIT_ETX == 3

STX == 2
ETX == 3

\* Serial.available() / Serial2.available() is false.
NoByte == -1

\* The commands the host may send on Serial: '0', '1', '2'.
CHAR_0 == 48
CHAR_1 == 49
CHAR_2 == 50

\* The bytes the reader may send on Serial2: both framing markers.  A byte
\* that is no marker is treated like ETX where STX is awaited and like STX
\* where ETX is awaited, and like either in the payload and the checksum.
RxBytes == {STX, ETX}

\* The decoder's statics, with the bytes one poll prints on Serial.
Rfid ==
    [state |-> rfid_state, count |-> rfid_byte_count, buf |-> rfid_buffer,
     cksum |-> rfid_cksum, out |-> <<>>]

\* rfid_byte_count-- on a byte
DecByte(c) == (c + 255) % 256

\* Mutant of RfidWaitStx: the start marker is counted with the payload.
RfidWaitStx_CountsMarker(r, b) ==
    IF b = STX
    THEN [r EXCEPT !.state = RFID_STATE_GET_BYTES, !.count = 11]
    ELSE r

\* case RFID_STATE_WAIT_STX
RfidWaitStx(r, b) ==
    IF b = STX
    THEN [r EXCEPT !.state = RFID_STATE_GET_BYTES, !.count = 10]
    ELSE r

\* Mutant of RfidGetBytes: the payload is stored from the end of the buffer.
RfidGetBytes_Reversed(r, b) ==
    LET r1 == [r EXCEPT !.buf[r.count - 1] = b, !.count = DecByte(r.count)] IN
    IF r1.count = 0
    THEN [r1 EXCEPT !.state = RFID_STATE_GET_CKSUM, !.count = 2]
    ELSE r1

\* case RFID_STATE_GET_BYTES
RfidGetBytes(r, b) ==
    LET r1 == [r EXCEPT !.buf[10 - r.count] = b, !.count = DecByte(r.count)] IN
    IF r1.count = 0
    THEN [r1 EXCEPT !.state = RFID_STATE_GET_CKSUM, !.count = 2]
    ELSE r1

\* case RFID_STATE_GET_CKSUM
RfidGetCksum(r, b) ==
    LET r1 == [r EXCEPT !.cksum[2 - r.count] = b, !.count = DecByte(r.count)] IN
    IF r1.count = 0
    THEN [r1 EXCEPT !.state = RFID_STATE_WAIT_ETX]
    ELSE r1

\* Serial.print(0x02), the ten buffered bytes, Serial.print(0x03)
RfidEmit(r) == <<STX>> \o [n \in 1 .. 10 |-> r.buf[n - 1]] \o <<ETX>>

\* Mutant of RfidWaitEtx: the frame is forwarded whatever byte ends it.
RfidWaitEtx_NoEtxTest(r, b) ==
    [r EXCEPT !.out = @ \o RfidEmit(r), !.state = RFID_STATE_WAIT_STX]

\* case RFID_STATE_WAIT_ETX
RfidWaitEtx(r, b) ==
    IF b = ETX
    THEN [r EXCEPT !.out = @ \o RfidEmit(r), !.state = RFID_STATE_WAIT_STX]
    ELSE [r EXCEPT !.state = RFID_STATE_WAIT_STX]

\* switch (rfid_state) on the byte read from Serial2
RfidDecode(r, b) ==
    CASE r.state = RFID_STATE_WAIT_STX -> RfidWaitStx(r, b)
      [] r.state = RFID_STATE_GET_BYTES -> RfidGetBytes(r, b)
      [] r.state = RFID_STATE_GET_CKSUM -> RfidGetCksum(r, b)
      [] r.state = RFID_STATE_WAIT_ETX -> RfidWaitEtx(r, b)
      [] OTHER -> r

\* switch (b) on the byte read from Serial: the RFID LED commands
RfidLedCommand(w, h) ==
    CASE h = CHAR_2 -> set_indicator(w, INDICATOR_LED_RFID, INDICATOR_BLINK, 500)
      [] h = CHAR_1 -> set_indicator(w, INDICATOR_LED_RFID, INDICATOR_ON, 0)
      [] h = CHAR_0 -> set_indicator(w, INDICATOR_LED_RFID, INDICATOR_OFF, 0)
      [] OTHER -> w

\* rfid_poll() with h the byte waiting on Serial and b the byte waiting on
\* Serial2 (NoByte: none): what it does to the program and to the
\* observations of the decoder.
RfidPollCore(h, b) ==
    LET w == RfidLedCommand(World, h)
        r == IF b = NoByte THEN Rfid ELSE RfidDecode(Rfid, b)
        fresh == rfid_state = RFID_STATE_WAIT_STX
    IN  /\ g_indicators' = w.ind
        /\ t' = w.t
        /\ pin' = w.pin
        /\ rfid_state' = r.state
        /\ rfid_byte_count' = r.count
        /\ rfid_buffer' = r.buf
        /\ rfid_cksum' = r.cksum
        /\ rx_log' = IF b = NoByte THEN rx_log
                     ELSE IF fresh THEN <<b>>
                     ELSE IF Len(rx_log) >= 15 THEN rx_log
                     ELSE Append(rx_log, b)
        /\ host_tx' = IF b = NoByte THEN host_tx
                      ELSE IF fresh THEN r.out
                      ELSE host_tx \o r.out
        /\ last_op' = Op("rfid_poll", w)
        /\ UNCHANGED <<alert_t, hidVars, hidObs, since_alert, btnVars>>

\* rfid_poll() fed by a reader whose framing is not observed.
RfidPoll(h, b) == RfidPollCore(h, b) /\ UNCHANGED stream

\* The decoder fed by the reader while the host switches the RFID LED on and
\* off between the reader's bytes.
NextRfid ==
    \E h \in {NoByte, CHAR_0, CHAR_1}, b \in RxBytes \cup {NoByte} : RfidPoll(h, b)

SpecRfid == Init /\ [][NextRfid]_vars

---------------------------------------------------------------------------
(* Claims about the RFID decoder *)

\* A frame as the reader sends it: STX, 10 payload bytes, 2 checksum bytes, ETX.
WellFormed(s) == Len(s) = 14 /\ s[1] = STX /\ s[14] = ETX

\* C4: when the bytes consumed since the decoder was in WAIT_STX are a
\* well-formed frame, the bytes printed on Serial meanwhile are exactly STX,
\* the frame's 10 payload bytes in arrival order, ETX, and the decoder is
\* back in WAIT_STX.
C4_FrameForwarded ==
    WellFormed(rx_log)
        => /\ host_tx = <<STX>> \o SubSeq(rx_log, 2, 11) \o <<ETX>>
           /\ rfid_state = RFID_STATE_WAIT_STX

\* C4 witness: a forwarded frame whose payload holds both marker bytes, with
\* the RFID LED switched by the host meanwhile.
C4_Witness ==
    /\ WellFormed(rx_log)
    /\ Len(host_tx) = 12
    /\ rx_log[2] = ETX
    /\ rx_log[3] = STX
    /\ rx_log[11] = STX
    /\ rx_log[12] = ETX
    /\ g_indicators[INDICATOR_LED_RFID].state = INDICATOR_ON

\* C5 as stated: after any consumed sequence that is not a well-formed frame
\* nothing was printed and the decoder is in WAIT_STX.
C5_Original ==
    (rx_log # <<>> /\ ~WellFormed(rx_log))
        => /\ host_tx = <<>>
           /\ rfid_state = RFID_STATE_WAIT_STX

\* C5 amended: after any consumed sequence that is not a well-formed frame
\* nothing was printed; the decoder is in WAIT_STX when the sequence does not
\* start with STX or when its 14th byte was consumed (a byte other than ETX
\* in the end-marker position), and a truncated frame leaves it in the phase
\* the frame has reached.
C5_Malformed ==
    (rx_log # <<>> /\ ~WellFormed(rx_log))
        => /\ host_tx = <<>>
           /\ Len(rx_log) <= 14
           /\ (rx_log[1] # STX \/ Len(rx_log) = 14)
                 => rfid_state = RFID_STATE_WAIT_STX
           /\ (rx_log[1] = STX /\ Len(rx_log) \in 1 .. 10)
                 => rfid_state = RFID_STATE_GET_BYTES
           /\ (rx_log[1] = STX /\ Len(rx_log) \in 11 .. 12)
                 => rfid_state = RFID_STATE_GET_CKSUM
           /\ (rx_log[1] = STX /\ Len(rx_log) = 13)
                 => rfid_state = RFID_STATE_WAIT_ETX

\* C5 witness: a frame whose end-marker position holds STX was dropped.
C5_Witness ==
    /\ Len(rx_log) = 14
    /\ rx_log[1] = STX
    /\ rx_log[14] = STX
    /\ host_tx = <<>>
    /\ rfid_state = RFID_STATE_WAIT_STX

---------------------------------------------------------------------------
(* Host link: rawhid_poll *)

PACKET_SIZE == 64
MARKER == 66                  \* 0x42
RUN_STATE_RUNNING == 1
RUN_STATE_PAUSED == 2
RUN_STATE_STOPPED == 0
ENCODER_MAX == 15

\* byte maxvel_lut[16]
maxvel_lut == <<0, 1, 2, 3, 4, 5, 6, 7, 8, 9, 10, 15, 25, 50, 75, 100>>

\* packetCount + 1 on a 32-bit unsigned int held as two 16-bit halves
Inc32(c) ==
    IF c.lo = 65535
    THEN [hi |-> (c.hi + 1) % 65536, lo |-> 0]
    ELSE [c EXCEPT !.lo = @ + 1]

\* Mutant of HidRunState: a paused program blinks the green beacon only.
HidRunState_BeaconOnly(w, b0) ==
    IF b0 = 1
    THEN [w |-> set_indicator(set_indicator(w, INDICATOR_BEACON_GREEN, INDICATOR_ON, 0),
                              INDICATOR_LED_START, INDICATOR_ON, 0),
          rs |-> RUN_STATE_RUNNING]
    ELSE IF b0 = 2
    THEN [w |-> set_indicator(w, INDICATOR_BEACON_GREEN, INDICATOR_BLINK, 500),
          rs |-> RUN_STATE_PAUSED]
    ELSE [w |-> set_indicator(set_indicator(w, INDICATOR_BEACON_GREEN, INDICATOR_OFF, 0),
                              INDICATOR_LED_START, INDICATOR_OFF, 0),
          rs |-> RUN_STATE_STOPPED]

\* state-run: the green beacon and the start LED follow byte 0
HidRunState(w, b0) ==
    IF b0 = 1
    THEN [w |-> set_indicator(set_indicator(w, INDICATOR_BEACON_GREEN, INDICATOR_ON, 0),
                              INDICATOR_LED_START, INDICATOR_ON, 0),
          rs |-> RUN_STATE_RUNNING]
    ELSE IF b0 = 2
    THEN [w |-> set_indicator(set_indicator(w, INDICATOR_BEACON_GREEN, INDICATOR_BLINK, 500),
                              INDICATOR_LED_START, INDICATOR_BLINK, 500),
          rs |-> RUN_STATE_PAUSED]
    ELSE [w |-> set_indicator(set_indicator(w, INDICATOR_BEACON_GREEN, INDICATOR_OFF, 0),
                              INDICATOR_LED_START, INDICATOR_OFF, 0),
          rs |-> RUN_STATE_STOPPED]

\* Mutant of AlertEdge: the previous run state is not looked at.
AlertEdge_NoHistory(last, cur) == cur = 1

\* if (last_run_state != 1 && run_state == 1)
AlertEdge(last, cur) == last # 1 /\ cur = 1

\* the alert: beeper on, alert_off after 5000 ms
HidAlert(w, tm, last, cur) ==
    IF AlertEdge(last, cur)
    THEN [w |-> set_indicator(w, ALERT_BEEPER, INDICATOR_ON, 0),
          t |-> TimerAfter(tm, ALERT_MS).t]
    ELSE [w |-> w, t |-> tm]

\* state-alarm: the red beacon follows byte 1
HidAlarm(w, b1) ==
    IF b1 = 1 THEN set_indicator(w, INDICATOR_BEACON_RED, INDICATOR_ON, 0)
    ELSE IF b1 = 2 THEN set_indicator(w, INDICATOR_BEACON_RED, INDICATOR_BLINK, 250)
    ELSE set_indicator(w, INDICATOR_BEACON_RED, INDICATOR_OFF, 0)

\* state-m1: the M1 LED follows byte 5
HidM1(w, b5) ==
    IF b5 = 1 THEN set_indicator(w, INDICATOR_LED_M1, INDICATOR_ON, 0)
    ELSE set_indicator(w, INDICATOR_LED_M1, INDICATOR_OFF, 0)

\* state-feed-hold: the feed LED follows byte 6
HidFeed(w, b6) ==
    IF b6 = 1 THEN set_indicator(w, INDICATOR_LED_FEED, INDICATOR_ON, 0)
    ELSE set_indicator(w, INDICATOR_LED_FEED, INDICATOR_OFF, 0)

\* Mutant of ClearBuffer: only the header bytes are cleared.
ClearBuffer_HeaderOnly(buf) == [n \in 0 .. 63 |-> IF n < 4 THEN 0 ELSE buf[n]]

\* for (int i=0; i<63; i++) buffer[i] = 0x00;
ClearBuffer(buf) == [n \in 0 .. 63 |-> IF n < 63 THEN 0 ELSE buf[n]]

\* Mutant of ClampMaxvel: a reading past 15 is used clamped but not written back.
ClampMaxvel_NoWriteBack(p) ==
    LET r1 == IF p < 0 THEN [enc |-> 0, maxvel |-> 0] ELSE [enc |-> p, maxvel |-> p] IN
    IF r1.maxvel > ENCODER_MAX THEN [enc |-> r1.enc, maxvel |-> ENCODER_MAX] ELSE r1

\* maxvel knob: the reading is clamped to 0 .. 15 and a clamped value is
\* written back to the encoder.  Returns the encoder position and maxvel.
ClampMaxvel(p) ==
    LET r1 == IF p < 0 THEN [enc |-> 0, maxvel |-> 0] ELSE [enc |-> p, maxvel |-> p] IN
    IF r1.maxvel > ENCODER_MAX THEN [enc |-> ENCODER_MAX, maxvel |-> ENCODER_MAX] ELSE r1

\* the amber beacon follows the mapped percentage
HidAmber(w, new_maxvel) ==
    IF new_maxvel = 0 THEN set_indicator(w, INDICATOR_BEACON_AMBER, INDICATOR_BLINK, 100)
    ELSE IF new_maxvel = 100 THEN set_indicator(w, INDICATOR_BEACON_AMBER, INDICATOR_OFF, 0)
    ELSE set_indicator(w, INDICATOR_BEACON_AMBER, INDICATOR_ON, 0)

\* The outbound packet built in buffer over the inbound packet pkt.
BuildPacket(pkt, new_maxvel, count) ==
    [ClearBuffer(pkt) EXCEPT ![0] = MARKER, ![1] = MARKER,
                             ![2] = highByte(new_maxvel), ![3] = lowByte(new_maxvel),
                             ![62] = highByte(count.lo), ![63] = lowByte(count.lo)]

\* Mutant of AfterSend: the counter moves on whatever the send reports.
AfterSend_Always(count, sendRet) == Inc32(count)

\* if (RawHID.send(buffer, 100) > 0) packetCount = packetCount + 1;
AfterSend(count, sendRet) == IF sendRet > 0 THEN Inc32(count) ELSE count

\* Mutant of Received: any result of RawHID.recv but 0 counts as a packet.
Received_NonZero(n) == n # 0

\* if (n == 64)
Received(n) == n = PACKET_SIZE

\* rawhid_poll() with n the result of RawHID.recv, pkt the packet it put in
\* buffer when n is 64, and sendRet the result of RawHID.send.  An alert is
\* requested only while alert_t has a free slot, and a send is reported
\* written only while fewer than MaxSends were.
RawhidPoll(n, pkt, sendRet) ==
    IF ~Received(n)
    THEN /\ last_op' = [NoOp EXCEPT !.name = "rawhid_poll", !.n = n,
                                    !.raw = encoder_maxvel, !.from = rx0]
         /\ UNCHANGED <<indVars, alert_t, rfidVars, hidVars, rfidObs, hidObs, since_alert,
                        btnVars, stream>>
    ELSE LET run == HidRunState(World, pkt[0])
             al == HidAlert(run.w, alert_t, last_run_state, run.rs)
             w3 == HidAlarm(al.w, pkt[1])
             w4 == HidM1(w3, pkt[5])
             w5 == HidFeed(w4, pkt[6])
             knob == ClampMaxvel(encoder_maxvel)
             new_maxvel == maxvel_lut[knob.maxvel + 1]
             w6 == HidAmber(w5, new_maxvel)
         IN  /\ AlertEdge(last_run_state, run.rs)
                   => FindFreeEventIndex(alert_t) # NO_TIMER_AVAILABLE
             /\ sendRet > 0 => n_sent # MaxSends
             /\ g_indicators' = w6.ind
             /\ t' = w6.t
             /\ pin' = w6.pin
             /\ alert_t' = al.t
             /\ run_state' = run.rs
             /\ last_run_state' = run.rs
             /\ encoder_maxvel' = knob.enc
             /\ buffer' = BuildPacket(pkt, new_maxvel, packetCount)
             /\ packetCount' = AfterSend(packetCount, sendRet)
             /\ rx0' = pkt[0]
             /\ n_sent' = IF sendRet > 0 THEN (n_sent + 1) % 65536 ELSE n_sent
             /\ since_alert' = IF pkt[0] = 1 /\ rx0 # 1 THEN 0 ELSE since_alert
             /\ last_op' = [NoOp EXCEPT !.name = "rawhid_poll", !.n = n, !.sent = sendRet,
                                        !.raw = encoder_maxvel, !.from = rx0,
                                        !.rx = pkt, !.sends = 1,
                                        !.regs = w6.regs, !.writes = w6.writes]
             /\ UNCHANGED <<rfidVars, rfidObs, btnVars, stream>>

\* The knob is turned by one position (the encoder's interrupt handler).
EncoderTurn(d) ==
    /\ encoder_maxvel + d \in (0 - EncOver) .. (ENCODER_MAX + EncOver)
    /\ encoder_maxvel' = encoder_maxvel + d
    /\ last_op' = [NoOp EXCEPT !.name = "encoder"]
    /\ UNCHANGED <<indVars, alert_t, rfidVars, packetCount, run_state, last_run_state,
                   buffer, rfidObs, hidObs, since_alert, btnVars, stream>>

\* An inbound packet: the bytes rawhid_poll reads, and FILLER in every byte
\* it does not read.
FILLER == 170
Packet(b0, b1, b5, b6) ==
    [n \in 0 .. 63 |->
        CASE n = 0 -> b0 [] n = 1 -> b1 [] n = 5 -> b5 [] n = 6 -> b6 [] OTHER -> FILLER]

---------------------------------------------------------------------------
(* The host link's data path: packets, the knob and the send counter *)

HidPackets == {Packet(0, 0, 0, 0), Packet(2, 2, 1, 255)}

\* The counter values the host link is started from: 0 (after setup), and the
\* values before the counter's low half and the whole counter wrap.
WrapStarts == {[hi |-> 0, lo |-> 65535], [hi |-> 65535, lo |-> 65535]}

Dec32(c) ==
    IF c.lo = 0 THEN [hi |-> (c.hi + 65535) % 65536, lo |-> 65535]
    ELSE [c EXCEPT !.lo = @ - 1]

\* The state after c exchanges (c > 0) in which the host sent all-zero status
\* bytes, read every reply, and the knob stood at 15: every indicator is off
\* as setup() left it, and buffer holds the last reply.
AfterExchanges(c) ==
    /\ g_indicators = SetupFrom(World0, 0).ind
    /\ t = SetupFrom(World0, 0).t
    /\ pin = SetupFrom(World0, 0).pin
    /\ alert_t = [s \in AlertSlots |-> FreeEvent]
    /\ rfid_state = 0
    /\ rfid_byte_count = 0
    /\ rfid_buffer = [n \in 0 .. 9 |-> 0]
    /\ rfid_cksum = [n \in 0 .. 1 |-> 0]
    /\ packetCount = c
    /\ run_state = RUN_STATE_STOPPED
    /\ last_run_state = RUN_STATE_STOPPED
    /\ buffer = BuildPacket(Packet(0, 0, 0, 0), 100, Dec32(c))
    /\ encoder_maxvel = ENCODER_MAX
    /\ last_op = [NoOp EXCEPT !.name = "rawhid_poll", !.n = PACKET_SIZE,
                              !.sent = PACKET_SIZE, !.raw = ENCODER_MAX, !.from = 0,
                              !.rx = Packet(0, 0, 0, 0), !.sends = 1]
    /\ rx_log = <<>>
    /\ host_tx = <<>>
    /\ rx0 = 0
    /\ n_sent = c.lo
    /\ since_alert = -1
    /\ buttons = [b \in Buttons |-> Bounce(b)]
    /\ keyboard = [modifier |-> KEY_NONE, key1 |-> KEY_NONE]
    /\ kbd_tx = <<>>
    /\ btn_obs = [b \in Buttons |-> Unobserved(b)]
    /\ stream = [pos |-> 0, noise |-> 0, fill |-> 0]

InitHid == Init \/ \E c \in WrapStarts : AfterExchanges(c)

\* What RawHID.recv returns when it has no packet to deliver: 0, or -1 while
\* the USB link is not configured.  buffer is left as it was.
RecvNone == {-1, 0}

NextHid ==
    \/ \E n \in RecvNone : RawhidPoll(n, buffer, 0)
    \/ \E pkt \in HidPackets, sendRet \in {0, PACKET_SIZE} :
          RawhidPoll(PACKET_SIZE, pkt, sendRet)
    \/ \E d \in {-1, 1} : EncoderTurn(d)

SpecHid == InitHid /\ [][NextHid]_vars

---------------------------------------------------------------------------
(* The whole program: loop() under any inputs.  The specifications above   *)
(* and below are this one with the inputs of one component at a time.      *)

Next ==
    \/ TUpdate
    \/ AlertUpdate
    \/ Tick
    \/ \E h \in {NoByte, CHAR_0, CHAR_1, CHAR_2}, b \in RxBytes \cup {NoByte} : RfidPoll(h, b)
    \/ RawhidPoll(0, buffer, 0)
    \/ \E b0, b1, b5, b6 \in {0, 1, 2, 255}, sendRet \in {0, PACKET_SIZE} :
          RawhidPoll(PACKET_SIZE, Packet(b0, b1, b5, b6), sendRet)
    \/ \E d \in {-1, 1} : EncoderTurn(d)

Spec == Init /\ [][Next]_vars

---------------------------------------------------------------------------
(* The host link's alert: run-state packets against the timers.  The host  *)
(* does not read the replies, so the send counter stands still.            *)

NextAlert ==
    \/ RawhidPoll(0, buffer, 0)
    \/ \E b0 \in {0, 1, 2} : RawhidPoll(PACKET_SIZE, Packet(b0, 0, 0, 0), 0)
    \/ TUpdate
    \/ AlertUpdate
    \/ Tick

SpecAlert == Init /\ [][NextAlert]_vars

---------------------------------------------------------------------------
(* Claims about the host link *)

\* The step is a rawhid_poll that received a complete packet.
Processed(op) == op.name = "rawhid_poll" /\ op.n = PACKET_SIZE

C6_Table == <<0, 1, 2, 3, 4, 5, 6, 7, 8, 9, 10, 15, 25, 50, 75, 100>>
C6_Clamp(p) == IF p < 0 THEN 0 ELSE IF p > 15 THEN 15 ELSE p

\* C6: a processed packet leaves the encoder at its position clamped to
\* 0 .. 15 and reports the table entry of the clamped position in bytes 2-3.
C6_EncoderMapping ==
    [][Processed(last_op')
       => /\ encoder_maxvel' = C6_Clamp(encoder_maxvel)
          /\ encoder_maxvel' \in 0 .. 15
          /\ buffer'[2] * 256 + buffer'[3] = C6_Table[C6_Clamp(encoder_maxvel) + 1]]_vars

\* C6 witness: a packet was processed with the knob one position past 15.
C6_Witness ==
    /\ Processed(last_op)
    /\ last_op.raw = 16
    /\ encoder_maxvel = 15
    /\ buffer[3] = 100

\* C7: a processed packet turns the beeper on and adds one 5000 ms callback to
\* alert_t exactly when its byte 0 is 1 and byte 0 of the packet processed
\* before was not 1 (or there was none); any other processed packet leaves
\* the beeper and alert_t as they were.
C7_AlertOnEdge ==
    [][Processed(last_op')
       => IF rx0' = 1 /\ rx0 # 1
          THEN /\ g_indicators'[ALERT_BEEPER].state = INDICATOR_ON
               /\ pin'[PIN_BEACON_BLUE] = LOW
               /\ \E s \in AlertSlots :
                     /\ alert_t[s].eventType = EVENT_NONE
                     /\ alert_t'[s].eventType = EVENT_EVERY
                     /\ alert_t'[s].period = 5000
                     /\ alert_t'[s].elapsed = 0
                     /\ \A s2 \in AlertSlots \ {s} : alert_t'[s2] = alert_t[s2]
          ELSE /\ alert_t' = alert_t
               /\ g_indicators'[ALERT_BEEPER] = g_indicators[ALERT_BEEPER]
               /\ pin'[PIN_BEACON_BLUE] = pin[PIN_BEACON_BLUE]]_vars

\* C7 witness: a RUNNING packet after a RUNNING packet, while the alert of the
\* transition is still sounding.
C7_Witness ==
    /\ Processed(last_op)
    /\ rx0 = 1
    /\ last_op.from = 1
    /\ g_indicators[ALERT_BEEPER].state = INDICATOR_ON
    /\ Cardinality(Live(alert_t)) = 1

\* C8 as stated: from a transition into RUNNING until 5000 ms after it the
\* beeper is on, and the callback that runs then turns it off.
C8_Original ==
    /\ (since_alert # -1 /\ since_alert < ALERT_MS)
          => g_indicators[ALERT_BEEPER].state = INDICATOR_ON
    /\ (since_alert = ALERT_MS /\ last_op.name = "alert_t.update")
          => g_indicators[ALERT_BEEPER].state = INDICATOR_OFF

C9_Table == <<0, 1, 2, 3, 4, 5, 6, 7, 8, 9, 10, 15, 25, 50, 75, 100>>

\* C9: after a processed packet buffer, the packet handed to RawHID.send, is
\* 64 bytes: 0x42 0x42, the percentage of the knob's position big-endian,
\* zeros in bytes 4-61, and in bytes 62-63 the count of earlier sends
\* big-endian.
C9_OutboundFormat ==
    Processed(last_op)
        => /\ DOMAIN buffer = 0 .. 63
           /\ buffer[0] = 66
           /\ buffer[1] = 66
           /\ encoder_maxvel \in 0 .. 15
           /\ buffer[2] = 0
           /\ buffer[3] = C9_Table[encoder_maxvel + 1]
           /\ \A n \in 4 .. 61 : buffer[n] = 0
           /\ buffer[62] * 256 + buffer[63]
                 = IF last_op.sent > 0 THEN (n_sent + 65535) % 65536 ELSE n_sent

\* C9 witness: the reply to a packet whose bytes are all nonzero, with the
\* knob at 11 and the counter at 65535.
C9_Witness ==
    /\ Processed(last_op)
    /\ rx0 = 2
    /\ buffer[3] = 15
    /\ buffer[62] = 255
    /\ buffer[63] = 255

\* C10: the counter's low 16 bits are the number of successful sends modulo
\* 2^16; a processed packet carries the count of the earlier sends in bytes
\* 62-63 and moves the counter on by one exactly when its send is reported
\* written; no other step changes the counter.
C10_SendCounter ==
    [][/\ packetCount'.lo = n_sent'
       /\ Processed(last_op')
             => /\ buffer'[62] * 256 + buffer'[63] = n_sent
                /\ IF last_op'.sent > 0
                   THEN /\ packetCount'.lo = (packetCount.lo + 1) % 65536
                        /\ packetCount'.hi =
                              IF packetCount.lo = 65535
                              THEN (packetCount.hi + 1) % 65536 ELSE packetCount.hi
                   ELSE packetCount' = packetCount
       /\ ~Processed(last_op') => packetCount' = packetCount]_vars

\* C10 witness: a failed send right after the counter's low half wrapped.
C10_Witness ==
    /\ Processed(last_op)
    /\ last_op.sent = 0
    /\ packetCount = [hi |-> 1, lo |-> 0]
    /\ buffer[62] = 0
    /\ buffer[63] = 0

---------------------------------------------------------------------------
(* The host link's flag bytes: packets in which byte 5 takes every value    *)
(* and byte 6 the value's complement, so that byte 6 takes every value too. *)

FlagBytes == 0 .. 255

NextFlags ==
    \E b \in FlagBytes : RawhidPoll(PACKET_SIZE, Packet(0, 0, b, 255 - b), 0)

SpecFlags == Init /\ [][NextFlags]_vars

\* C11 as stated: after a processed packet the M1 LED is ON when byte 5 of
\* the packet is nonzero and OFF when it is zero, and the feed LED is ON
\* when byte 6 is nonzero and OFF when it is zero.
C11_Original ==
    Processed(last_op)
        => /\ g_indicators[INDICATOR_LED_M1].state =
                 IF last_op.rx[5] # 0 THEN INDICATOR_ON ELSE INDICATOR_OFF
           /\ g_indicators[INDICATOR_LED_FEED].state =
                 IF last_op.rx[6] # 0 THEN INDICATOR_ON ELSE INDICATOR_OFF

---------------------------------------------------------------------------
(* The host link's run state: run-state bytes against Timer t *)

RunBytes == {0, 1, 2, 3, 255}

NextRun ==
    \/ RawhidPoll(0, buffer, 0)
    \/ \E b0 \in RunBytes : RawhidPoll(PACKET_SIZE, Packet(b0, 0, 0, 0), 0)
    \/ TUpdate
    \/ AlertUpdate
    \/ Tick

SpecRun == Init /\ [][NextRun]_vars

C12_Mode(b0) ==
    IF b0 = 1 THEN INDICATOR_ON ELSE IF b0 = 2 THEN INDICATOR_BLINK ELSE INDICATOR_OFF

\* C12: after a processed packet, and until the next one, the green beacon
\* and the start LED are both in the mode byte 0 selects: for 0x01 ON with
\* no registration, for 0x02 BLINK with a live registration of Timer t that
\* toggles the indicator's pin every 500 ms for ever, for any other value
\* OFF with no registration.
C12_RunStateModes ==
    rx0 # -1
        => \A i \in {INDICATOR_BEACON_GREEN, INDICATOR_LED_START} :
              /\ g_indicators[i].state = C12_Mode(rx0)
              /\ IF rx0 = 2
                 THEN /\ g_indicators[i].event_id \in TSlots
                      /\ RegsOf(t, i) = {g_indicators[i].event_id}
                      /\ t[g_indicators[i].event_id].eventType = EVENT_OSCILLATE
                      /\ t[g_indicators[i].event_id].period = 500
                      /\ t[g_indicators[i].event_id].repeatCount < 0
                 ELSE /\ g_indicators[i].event_id = -1
                      /\ RegsOf(t, i) = {}
                      /\ pin[g_indicators[i].io_pin] = IF rx0 = 1 THEN LOW ELSE HIGH

\* C12 witness: a PAUSED packet processed right after a RUNNING packet: both
\* indicators went from ON to BLINK, each on a registration of its own.
C12_Witness ==
    /\ Processed(last_op)
    /\ rx0 = 2
    /\ last_op.from = 1
    /\ last_op.regs = 2
    /\ g_indicators[INDICATOR_BEACON_GREEN].state = INDICATOR_BLINK
    /\ g_indicators[INDICATOR_LED_START].state = INDICATOR_BLINK
    /\ g_indicators[INDICATOR_BEACON_GREEN].event_id
          # g_indicators[INDICATOR_LED_START].event_id

---------------------------------------------------------------------------
(* Buttons: button_poll under any samples of the button pins *)

\* button_poll() with samples[b] the level digitalRead finds on the pin of
\* button b: every Bounce object is updated, then the edges are turned into
\* key reports, start first.
ButtonPoll(samples) ==
    LET bs == [b \in Buttons |-> BounceUpdate(buttons[b], samples[b], BounceInterval(b))]
        kb0 == [modifier |-> keyboard.modifier, key1 |-> keyboard.key1, sent |-> <<>>]
        kb1 == ButtonStart(kb0, bs[PIN_BTN_START])
        kb2 == ButtonStop(kb1, bs[PIN_BTN_STOP])
        kb3 == ButtonFeed(kb2, bs[PIN_BTN_FEED])
        kb4 == ButtonM1(kb3, bs[PIN_BTN_M1])
    IN  /\ buttons' = bs
        /\ keyboard' = [modifier |-> kb4.modifier, key1 |-> kb4.key1]
        /\ kbd_tx' = kb4.sent
        /\ btn_obs' = [b \in Buttons |->
                          Observe(btn_obs[b], samples[b], bs[b].stateChanged)]
        /\ last_op' = [NoOp EXCEPT !.name = "button_poll"]
        /\ UNCHANGED <<indVars, alert_t, rfidVars, hidVars, rfidObs, hidObs,
                       since_alert, stream>>

\* Two loop() iterations are at most SampleGap ms apart.
SampleGap == 5

\* The start and the stop button are worked, bouncing as they may; the feed
\* and the M1 button are left alone.
TwoButtons ==
    {s \in [Buttons -> Levels] :
        s[PIN_BTN_FEED] = RestLevel(PIN_BTN_FEED) /\ s[PIN_BTN_M1] = RestLevel(PIN_BTN_M1)}

NextBtn ==
    \/ \E samples \in TwoButtons : ButtonPoll(samples)
    \/ Elapse(SampleGap)

SpecBtn == Init /\ [][NextBtn]_vars

\* All four buttons are worked; time passes a debounce interval at a time.
NextKeys ==
    \/ \E samples \in [Buttons -> Levels] : ButtonPoll(samples)
    \/ Elapse(DEBOUNCE_MS)

SpecKeys == Init /\ [][NextKeys]_vars

---------------------------------------------------------------------------
(* Claims about the buttons *)

C14_AltKey(key) == <<<<"ALT", "0">>, <<"ALT", key>>, <<"ALT", "0">>, <<"0", "0">>>>
C14_Key(key) == <<<<"0", key>>, <<"0", "0">>>>
C14_Rising(b) == buttons[b].stateChanged /\ buttons[b].state = HIGH
C14_Falling(b) == buttons[b].stateChanged /\ buttons[b].state = LOW

\* C14: the reports the last button_poll sent are, in the order start, stop,
\* feed, M1: ALT+R (ALT down, R down, R up, ALT up) if the poll accepted a
\* rising edge of start, ESC (down, up) if a falling edge of stop, SPACE if a
\* falling edge of feed, ALT+K if a falling edge of M1, and nothing else: no
\* report for the opposite edge or for a poll that accepted no edge; and the
\* Keyboard is left with no key and no modifier down.
C14_KeyInjection ==
    /\ kbd_tx = (IF C14_Rising(PIN_BTN_START) THEN C14_AltKey("R") ELSE <<>>)
                \o (IF C14_Falling(PIN_BTN_STOP) THEN C14_Key("ESC") ELSE <<>>)
                \o (IF C14_Falling(PIN_BTN_FEED) THEN C14_Key("SPACE") ELSE <<>>)
                \o (IF C14_Falling(PIN_BTN_M1) THEN C14_AltKey("K") ELSE <<>>)
    /\ keyboard = [modifier |-> "0", key1 |-> "0"]

\* C14 witness: one poll accepted a rising edge of start and of stop and a
\* falling edge of M1, and sent ALT+R and ALT+K and nothing for stop.
C14_Witness ==
    /\ last_op.name = "button_poll"
    /\ C14_Rising(PIN_BTN_START)
    /\ C14_Rising(PIN_BTN_STOP)
    /\ C14_Falling(PIN_BTN_M1)
    /\ ~buttons[PIN_BTN_FEED].stateChanged
    /\ Len(kbd_tx) = 8

---------------------------------------------------------------------------
(* Claims about the host link's polls *)

\* C15: a rawhid_poll to which RawHID.recv delivers no complete packet leaves
\* every indicator's mode and handle, the timers, the pins, the run state and
\* its history, the encoder, the send counter and buffer as they were and
\* calls RawHID.send not at all; a rawhid_poll that receives a complete
\* packet calls RawHID.send exactly once.
C15_PollGate ==
    [][last_op'.name = "rawhid_poll"
       => IF last_op'.n = 64
          THEN last_op'.sends = 1
          ELSE /\ last_op'.sends = 0
               /\ \A i \in Indicators :
                     /\ g_indicators'[i].state = g_indicators[i].state
                     /\ g_indicators'[i].event_id = g_indicators[i].event_id
               /\ t' = t
               /\ alert_t' = alert_t
               /\ pin' = pin
               /\ run_state' = run_state
               /\ last_run_state' = last_run_state
               /\ encoder_maxvel' = encoder_maxvel
               /\ packetCount' = packetCount
               /\ n_sent' = n_sent
               /\ buffer' = buffer]_vars

\* C15 witness: a poll without a packet while the green beacon blinks, the
\* knob stands past 15 and one reply has been sent.
C15_Witness ==
    /\ last_op.name = "rawhid_poll"
    /\ last_op.n = -1
    /\ last_op.sends = 0
    /\ g_indicators[INDICATOR_BEACON_GREEN].state = INDICATOR_BLINK
    /\ g_indicators[INDICATOR_BEACON_GREEN].event_id # -1
    /\ encoder_maxvel = 16
    /\ packetCount = [hi |-> 0, lo |-> 1]
    /\ run_state = RUN_STATE_PAUSED

---------------------------------------------------------------------------
(* Further claims about the indicator manager *)

\* C16 as stated: a PULSE request for an indicator whose earlier pulse has
\* fired (mode PULSE, a recorded handle, no registration left on its pin) is
\* not blocked by the stale handle: it registers a new one-shot pulse.
C16_Original ==
    [][(/\ last_op'.name = "set_indicator"
        /\ last_op'.mode = INDICATOR_PULSE
        /\ g_indicators[last_op'.idx].state = INDICATOR_PULSE
        /\ g_indicators[last_op'.idx].event_id # -1
        /\ RegsOf(t, last_op'.idx) = {})
       => (/\ last_op'.regs = 1
           /\ RegsOf(t', last_op'.idx) # {})]_vars

---------------------------------------------------------------------------
(* Further claims about the RFID decoder *)

\* The counter agrees with the phase and the write index is inside its buffer.
C17_CounterInPhase(st, c) ==
    /\ st \in 0 .. 3
    /\ st = 1 => (c \in 1 .. 10 /\ (10 - c) \in 0 .. 9)
    /\ st = 2 => (c \in 1 .. 2 /\ (2 - c) \in 0 .. 1)

\* C17: in every reachable state of the decoder the counter is in 1..10 in
\* GET_BYTES and in 1..2 in GET_CKSUM, so that the write indexes 10 - counter
\* and 2 - counter are inside rfid_buffer and rfid_cksum, which keep their
\* sizes; and a poll changes the phase only from WAIT_STX on the byte 0x02
\* (to GET_BYTES, counter 10), from GET_BYTES and GET_CKSUM on the byte that
\* takes the counter from 1 to zero (to GET_CKSUM with counter 2, and to
\* WAIT_ETX), and from WAIT_ETX on the byte consumed there (to WAIT_STX).
C17_CounterConsistent ==
    [][/\ C17_CounterInPhase(rfid_state, rfid_byte_count)
       /\ C17_CounterInPhase(rfid_state', rfid_byte_count')
       /\ DOMAIN rfid_buffer' = 0 .. 9
       /\ DOMAIN rfid_cksum' = 0 .. 1
       /\ rfid_state' # rfid_state
             => \/ /\ rfid_state = 0
                   /\ rx_log' = <<2>>
                   /\ rfid_state' = 1
                   /\ rfid_byte_count' = 10
                \/ /\ rfid_state = 1
                   /\ rfid_byte_count = 1
                   /\ rfid_state' = 2
                   /\ rfid_byte_count' = 2
                \/ /\ rfid_state = 2
                   /\ rfid_byte_count = 1
                   /\ rfid_state' = 3
                \/ /\ rfid_state = 3
                   /\ Len(rx_log') = 14
                   /\ rfid_state' = 0]_vars

\* C17 witness: the decoder waits for the second checksum byte of a frame
\* whose payload filled rfid_buffer up to its last element.
C17_Witness ==
    /\ rfid_state = RFID_STATE_GET_CKSUM
    /\ rfid_byte_count = 1
    /\ Len(rx_log) = 12
    /\ rfid_buffer[9] = rx_log[11]
    /\ rfid_buffer[0] = STX
    /\ rfid_buffer[9] = ETX
    /\ rfid_cksum[0] = rx_log[12]

---------------------------------------------------------------------------
(* The indicator manager with indicators of either polarity: a caller that  *)
(* initialises an indicator as setup() does, with any active level, and     *)
(* then sets its mode.                                                      *)

\* init_indicator(idx, io_pin, active_level) on an indicator that is not in
\* use (mode OFF, no handle), as in setup().
CallInitIndicator(idx, active_level) ==
    LET w == init_indicator(World, idx, SetupPin(idx), active_level) IN
    /\ g_indicators[idx].state = INDICATOR_OFF
    /\ g_indicators[idx].event_id = -1
    /\ g_indicators' = w.ind
    /\ t' = w.t
    /\ pin' = w.pin
    /\ last_op' = [NoOp EXCEPT !.name = "init_indicator", !.idx = idx,
                               !.level = active_level, !.writes = w.writes]
    /\ UNCHANGED <<alert_t, rfidVars, hidVars, rfidObs, hidObs, since_alert, btnVars, stream>>

NextPol ==
    \/ \E idx \in 0 .. (HarnessInds - 1), active_level \in Levels :
          CallInitIndicator(idx, active_level)
    \/ \E idx \in 0 .. (HarnessInds - 1), mode \in Modes :
          CallSetIndicator(idx, mode, HARNESS_PERIOD)
    \/ TUpdate
    \/ Tick

SpecPol == Init /\ [][NextPol]_vars

\* C18 as stated: for either active level, an indicator in mode ON has its
\* pin at the active level and an indicator in mode OFF (after init_indicator
\* or set_indicator(OFF)) has its pin at the opposite level.
C18_Original ==
    \A i \in Indicators :
        /\ g_indicators[i].state = INDICATOR_ON
              => pin[g_indicators[i].io_pin] = g_indicators[i].active_level
        /\ g_indicators[i].state = INDICATOR_OFF
              => pin[g_indicators[i].io_pin] = 1 - g_indicators[i].active_level

---------------------------------------------------------------------------
(* The RFID decoder fed by a reader that sends malformed input and then a   *)
(* well-formed frame.  The observation stream holds what the reader is at:  *)
(* noise is the number of bytes of malformed input sent, pos the number of  *)
(* bytes of the well-formed frame sent (0: not begun, 14: complete) and     *)
(* fill the byte its payload and checksum consist of.                       *)

\* The reader sends at most MaxNoise bytes of malformed input.
MaxNoise == 13

\* The reader sends one more byte of malformed input: any byte, as long as
\* the well-formed frame has not begun.
ReaderNoise(b) ==
    /\ stream.pos = 0
    /\ stream.noise < MaxNoise
    /\ RfidPollCore(NoByte, b)
    /\ stream' = [stream EXCEPT !.noise = @ + 1]

\* The reader sends the next byte of the well-formed frame: STX, ten payload
\* and two checksum bytes f, ETX.
ReaderFrame(f) ==
    /\ stream.pos < 14
    /\ stream.pos > 0 => f = stream.fill
    /\ RfidPollCore(NoByte, CASE stream.pos = 0 -> STX
                              [] stream.pos = 13 -> ETX
                              [] OTHER -> f)
    /\ stream' = [stream EXCEPT !.pos = @ + 1, !.fill = f]

NextStream ==
    \/ \E b \in RxBytes : ReaderNoise(b)
    \/ \E f \in RxBytes : ReaderFrame(f)

SpecStream == Init /\ [][NextStream]_vars

\* C19 as stated: when the reader has sent some malformed input and then a
\* complete well-formed frame, the decoder has decoded the frame and printed
\* it (STX, the frame's payload, ETX) with the frame's last byte.
C19_Original ==
    (stream.noise > 0 /\ stream.pos = 14)
        => /\ rfid_state = RFID_STATE_WAIT_STX
           /\ WellFormed(rx_log)
           /\ host_tx = <<STX>> \o [n \in 1 .. 10 |-> stream.fill] \o <<ETX>>

---------------------------------------------------------------------------
(* Cancels of the indicator manager *)

\* C20 as stated, in the consequence that matters: whatever set_indicator
\* cancels belongs to the indicator it was called for, so a call for one
\* indicator leaves every live registration that drives the pin of another
\* indicator as it was.
C20_Original ==
    [][last_op'.name = "set_indicator"
       => \A j \in Indicators \ {last_op'.idx} :
             \A s \in RegsOf(t, j) : t'[s] = t[s]]_vars

====
